---- MODULE Spec2Model ----
(***************************************************************************)
(* Archetype-based entity/component store: the generational entity table,  *)
(* the archetype columns, the bundle resolver and the World operations     *)
(* spawn, remove, add_component and remove_component.                      *)
(*                                                                         *)
(* Rust indices are 0-based; TLA+ sequences are 1-based, so the element    *)
(* with Rust index i of a Vec v is At(v, i) = v[i + 1].                    *)
(***************************************************************************)
EXTENDS Integers, Sequences, FiniteSets, TLC

\* ---------------------------------------------------------------- bounds
\* number of distinct component types (TypeId values) in play
NumTypes == 2
\* number of distinct component values of each type
NumValues == 2
\* cap on the number of entity table slots
MaxEntries == 2
\* the largest generation; stands for u32::MAX (checked_add overflows there)
MaxGeneration == 2
\* cap on the number of archetypes
MaxArchetypes == 3
\* cap on the length of any entities sequence or component column
MaxRows == 2
\* cap on the number of World calls in a run
MaxCalls == 4
\* cap on the number of read guards held on one column
MaxReaders == 2
\* cap on the number of World calls in a run that is followed step by step
DeepCalls == 6
\* cap on the length of entities and columns in such a run
DeepRows == 3

TypeIds == 1..NumTypes

Values == 1..NumValues

\* ------------------------------------------------------- Vec operations
Range(s) == {s[i] : i \in DOMAIN s}

At(s, i) == s[i + 1]

Last(s) == s[Len(s)]

Front(s) == SubSeq(s, 1, Len(s) - 1)

\* Vec::insert(i, x)
InsertAt(s, i, x) == SubSeq(s, 1, i) \o <<x>> \o SubSeq(s, i + 1, Len(s))

\* Vec::remove(i)
RemoveAt(s, i) == SubSeq(s, 1, i) \o SubSeq(s, i + 2, Len(s))

\* Vec::swap_remove(i), defined for i < Len(s)
SwapRemove(s, i) == IF i = Len(s) - 1 THEN Front(s) ELSE Front([s EXCEPT ![i + 1] = Last(s)])

\* all orders in which the keys of a HashMap with key set S can be iterated
IterationOrders(S) == {o \in [1..Cardinality(S) -> S] : Range(o) = S}

\* sequences of distinct type ids, the type lists of tuple bundles (1..15 types)
BundleTypes == UNION {IterationOrders(S) : S \in (SUBSET TypeIds) \ {{}}}

\* a list of distinct type ids in ascending order
RECURSIVE SortTypes(_)
SortTypes(s) ==
  IF s = <<>> THEN <<>>
  ELSE LET m == CHOOSE x \in Range(s) : \A y \in Range(s) : x <= y
           i == CHOOSE j \in DOMAIN s : s[j] = m
       IN <<m>> \o SortTypes(RemoveAt(s, i - 1))

\* mutant: the type list is hashed in the order the bundle supplies it
types_left_unsorted(types) == types

\* types.sort_unstable_by(|a, b| a.1.cmp(&b.1))
sort_unstable_by_type_id(types) == SortTypes(types)

\* Hash of a slice of type ids: the length-prefixed fold of its elements.
\* Distinct slices have distinct ids (64-bit collisions are not modelled).
RECURSIVE hash_slice(_, _)
hash_slice(types, n) ==
  IF n = 0 THEN 1 ELSE hash_slice(types, n - 1) * (NumTypes + 1) + types[n]

calculate_bundle_id(types) == hash_slice(types, Len(types))

\* ------------------------------------------------ slice::binary_search
\* Result of binary_search: Ok(idx) or Err(idx)
SearchOk(i) == [ok |-> TRUE, idx |-> i]

SearchErr(i) == [ok |-> FALSE, idx |-> i]

\* the base/size loop of core::slice::binary_search_by
RECURSIVE bs_base_loop(_, _, _, _)
bs_base_loop(s, t, base, size) ==
  IF size > 1
  THEN LET half == size \div 2
           mid == base + half
       IN bs_base_loop(s, t, IF At(s, mid) > t THEN base ELSE mid, size - half)
  ELSE base

bs_base_size(s, t) ==
  IF Len(s) = 0 THEN SearchErr(0)
  ELSE LET base == bs_base_loop(s, t, 0, Len(s))
       IN IF At(s, base) = t THEN SearchOk(base)
          ELSE SearchErr(base + (IF At(s, base) < t THEN 1 ELSE 0))

\* the left/right loop of core::slice::binary_search_by (Rust 1.52 - 1.81)
RECURSIVE bs_left_right(_, _, _, _)
bs_left_right(s, t, left, right) ==
  IF left < right
  THEN LET mid == left + ((right - left) \div 2)
       IN IF At(s, mid) < t THEN bs_left_right(s, t, mid + 1, right)
          ELSE IF At(s, mid) > t THEN bs_left_right(s, t, left, mid)
          ELSE SearchOk(mid)
  ELSE SearchErr(left)

\* The result on an unsorted slice is unspecified: it is whatever the loop of
\* the standard library in the build returns.
BinarySearchImpls == {"base_size", "left_right"}

binary_search(impl, s, t) ==
  IF impl = "base_size" THEN bs_base_size(s, t) ELSE bs_left_right(s, t, 0, Len(s))

\* ------------------------------------------------------ entity table
Entity(index, generation) == [index |-> index, generation |-> generation]

EntityLocation(archetype_id, index_in_archetype) ==
  [archetype_id |-> archetype_id, index_in_archetype |-> index_in_archetype]

EntityEntry(is_live, generation, archetype_id, index_in_archetype) ==
  [is_live |-> is_live, generation |-> generation,
   location |-> EntityLocation(archetype_id, index_in_archetype)]

\* Entities::default()
EntitiesDefault == [entries |-> <<>>, free |-> <<>>]

\* mutant: allocate reuses the index that has been free the longest
allocate_oldest_freed(es) ==
  IF es.free # <<>>
  THEN LET index == Head(es.free)
           popped == [es EXCEPT !.free = Tail(es.free)]
           entry == At(es.entries, index)
       IN [result |-> "Ok", entity |-> Entity(index, entry.generation),
           entities |-> [popped EXCEPT !.entries[index + 1].is_live = TRUE]]
  ELSE [result |-> "Ok", entity |-> Entity(Len(es.entries), 0),
        entities |-> [es EXCEPT !.entries = Append(es.entries, EntityEntry(TRUE, 0, 0, 0))]]

\* Entities::allocate: [result, entity, entities]
allocate(es) ==
  IF es.free # <<>>
  THEN LET index == Last(es.free)
           popped == [es EXCEPT !.free = Front(es.free)]
           entry == At(es.entries, index)
       IN IF entry.is_live
          THEN [result |-> "AlreadyAllocated", entity |-> Entity(index, entry.generation),
                entities |-> popped]
          ELSE [result |-> "Ok", entity |-> Entity(index, entry.generation),
                entities |-> [popped EXCEPT !.entries[index + 1].is_live = TRUE]]
  ELSE [result |-> "Ok", entity |-> Entity(Len(es.entries), 0),
        entities |-> [es EXCEPT !.entries = Append(es.entries, EntityEntry(TRUE, 0, 0, 0))]]

\* mutant: deallocate frees the slot and leaves its generation as it is
deallocate_keeps_generation(es, entity) ==
  IF entity.index >= Len(es.entries) THEN [result |-> "DoesNotExist", entities |-> es]
  ELSE IF ~At(es.entries, entity.index).is_live
  THEN [result |-> "AlreadyDeallocated", entities |-> es]
  ELSE [result |-> "Ok",
        entities |-> [es EXCEPT !.entries[entity.index + 1].is_live = FALSE,
                                !.free = Append(es.free, entity.index)]]

\* mutant: deallocate does not return the index to the free list
deallocate_keeps_index(es, entity) ==
  IF entity.index >= Len(es.entries) THEN [result |-> "DoesNotExist", entities |-> es]
  ELSE IF ~At(es.entries, entity.index).is_live
  THEN [result |-> "AlreadyDeallocated", entities |-> es]
  ELSE IF At(es.entries, entity.index).generation = MaxGeneration
  THEN [result |-> "panic", entities |-> es]
  ELSE [result |-> "Ok",
        entities |-> [es EXCEPT !.entries[entity.index + 1].is_live = FALSE,
                                !.entries[entity.index + 1].generation = @ + 1]]

\* mutant: the generation wraps around to 0 at the maximum
deallocate_wrapping(es, entity) ==
  IF entity.index >= Len(es.entries) THEN [result |-> "DoesNotExist", entities |-> es]
  ELSE IF ~At(es.entries, entity.index).is_live
  THEN [result |-> "AlreadyDeallocated", entities |-> es]
  ELSE [result |-> "Ok",
        entities |-> [es EXCEPT !.entries[entity.index + 1].is_live = FALSE,
                                !.entries[entity.index + 1].generation =
                                   (@ + 1) % (MaxGeneration + 1),
                                !.free = Append(es.free, entity.index)]]

\* mutant: deallocate frees a slot again that is already free
deallocate_frees_again(es, entity) ==
  IF entity.index >= Len(es.entries) THEN [result |-> "DoesNotExist", entities |-> es]
  ELSE IF At(es.entries, entity.index).generation = MaxGeneration
  THEN [result |-> "panic", entities |-> es]
  ELSE [result |-> "Ok",
        entities |-> [es EXCEPT !.entries[entity.index + 1].is_live = FALSE,
                                !.entries[entity.index + 1].generation = @ + 1,
                                !.free = Append(es.free, entity.index)]]

\* Entities::deallocate: [result, entities]; "panic" is the checked_add overflow
deallocate(es, entity) ==
  IF entity.index >= Len(es.entries) THEN [result |-> "DoesNotExist", entities |-> es]
  ELSE IF ~At(es.entries, entity.index).is_live
  THEN [result |-> "AlreadyDeallocated", entities |-> es]
  ELSE IF At(es.entries, entity.index).generation = MaxGeneration
  THEN [result |-> "panic", entities |-> es]
  ELSE [result |-> "Ok",
        entities |-> [es EXCEPT !.entries[entity.index + 1].is_live = FALSE,
                                !.entries[entity.index + 1].generation = @ + 1,
                                !.free = Append(es.free, entity.index)]]

\* mutant: set_location writes the location of any slot of the table
set_location_any_slot(es, entity_id, location) ==
  IF entity_id >= Len(es.entries) THEN [result |-> "DoesNotExist", entities |-> es]
  ELSE [result |-> "Ok", entities |-> [es EXCEPT !.entries[entity_id + 1].location = location]]

\* Entities::set_location: [result, entities]
set_location(es, entity_id, location) ==
  IF entity_id >= Len(es.entries) THEN [result |-> "DoesNotExist", entities |-> es]
  ELSE IF ~At(es.entries, entity_id).is_live
  THEN [result |-> "AlreadyDeallocated", entities |-> es]
  ELSE [result |-> "Ok", entities |-> [es EXCEPT !.entries[entity_id + 1].location = location]]

\* mutant: count is the number of slots, live or not
count_all_slots(es) == Len(es.entries)

\* Entities::count
count(es) == Cardinality({i \in DOMAIN es.entries : es.entries[i].is_live})

\* Entities::is_live
is_live(es, entity) ==
  IF entity.index >= Len(es.entries) THEN FALSE
  ELSE At(es.entries, entity.index).is_live
       /\ At(es.entries, entity.index).generation = entity.generation

\* Entities::live_at_index: TRUE when Some(entry) is returned
live_at_index(es, index) ==
  index < Len(es.entries) /\ At(es.entries, index).is_live

\* --------------------------------------------------------- archetypes
\* An archetype: `components` maps each type id to its column, `order` is the
\* iteration order of the `components` HashMap, `entities` the row owners.
NewArchetype(types, order) ==
  [components |-> [t \in types |-> <<>>], order |-> order, entities |-> <<>>]

\* Archetype::has_component
has_component_in(archetype, type_id) == type_id \in DOMAIN archetype.components

\* Archetype::add_entity: the row is Len(entities) before the call; expand()
\* only reserves capacity, no column changes length
add_entity(archetype, entity_id) ==
  [archetype EXCEPT !.entities = Append(archetype.entities, entity_id)]

\* Archetype::add_entity_component, defined when the column exists
add_entity_component(archetype, type_id, component) ==
  [archetype EXCEPT !.components[type_id] = Append(@, component)]

\* mutant: remove_entity swap-removes the row and reports no displaced entity
remove_entity_reports_none(archetype, index_in_archetype) ==
  IF Len(archetype.entities) = 0 \/ index_in_archetype >= Len(archetype.entities)
  THEN [panic |-> TRUE, has_moved |-> FALSE, moved |-> 0, archetype |-> archetype]
  ELSE [panic |-> FALSE, has_moved |-> FALSE, moved |-> 0,
        archetype |-> [archetype EXCEPT !.entities = SwapRemove(archetype.entities, index_in_archetype)]]

\* mutant: remove_entity drops the last row whatever the row asked for
remove_entity_pops_last(archetype, index_in_archetype) ==
  IF Len(archetype.entities) = 0 \/ index_in_archetype >= Len(archetype.entities)
  THEN [panic |-> TRUE, has_moved |-> FALSE, moved |-> 0, archetype |-> archetype]
  ELSE [panic |-> FALSE,
        has_moved |-> Len(archetype.entities) - 1 # index_in_archetype,
        moved |-> Last(archetype.entities),
        archetype |-> [archetype EXCEPT !.entities = Front(archetype.entities)]]

\* Archetype::remove_entity: [panic, moved, has_moved, archetype]
remove_entity(archetype, index_in_archetype) ==
  IF Len(archetype.entities) = 0 \/ index_in_archetype >= Len(archetype.entities)
  THEN [panic |-> TRUE, has_moved |-> FALSE, moved |-> 0, archetype |-> archetype]
  ELSE IF Len(archetype.entities) - 1 = index_in_archetype
  THEN [panic |-> FALSE, has_moved |-> FALSE, moved |-> 0,
        archetype |-> [archetype EXCEPT !.entities = Front(archetype.entities)]]
  ELSE [panic |-> FALSE, has_moved |-> TRUE, moved |-> Last(archetype.entities),
        archetype |-> [archetype EXCEPT !.entities = SwapRemove(archetype.entities, index_in_archetype)]]

\* Archetype::set_entity_component: [result, archetype]
set_entity_component(archetype, index_in_archetype, type_id, comp) ==
  IF type_id \notin DOMAIN archetype.components
  THEN [result |-> "panic", archetype |-> archetype]
  ELSE IF index_in_archetype >= Len(archetype.components[type_id])
  THEN [result |-> "UnderCapacity", archetype |-> archetype]
  ELSE [result |-> "Ok",
        archetype |-> [archetype EXCEPT !.components[type_id][index_in_archetype + 1] = comp]]

\* mutant: migrate_component moves the last value of the column
migrate_component_takes_last(src, type_id, index_in_archetype, dst) ==
  IF \/ type_id \notin DOMAIN dst.components
     \/ type_id \notin DOMAIN src.components
     \/ index_in_archetype >= Len(src.components[type_id])
  THEN [panic |-> TRUE, src |-> src, dst |-> dst]
  ELSE [panic |-> FALSE,
        src |-> [src EXCEPT !.components[type_id] = Front(@)],
        dst |-> [dst EXCEPT !.components[type_id] = Append(@, Last(src.components[type_id]))]]

\* Archetype::migrate_component: [panic, src, dst]
migrate_component(src, type_id, index_in_archetype, dst) ==
  IF \/ type_id \notin DOMAIN dst.components
     \/ type_id \notin DOMAIN src.components
     \/ index_in_archetype >= Len(src.components[type_id])
  THEN [panic |-> TRUE, src |-> src, dst |-> dst]
  ELSE [panic |-> FALSE,
        src |-> [src EXCEPT !.components[type_id] = SwapRemove(@, index_in_archetype)],
        dst |-> [dst EXCEPT !.components[type_id] =
                   Append(@, At(src.components[type_id], index_in_archetype))]]

\* the loop `for type_id in ids { old.migrate_component(type_id, row, new) }`
RECURSIVE migrate_components(_, _, _, _)
migrate_components(src, ids, index_in_archetype, dst) ==
  IF ids = <<>> THEN [panic |-> FALSE, src |-> src, dst |-> dst]
  ELSE LET m == migrate_component(src, ids[1], index_in_archetype, dst)
       IN IF m.panic THEN m
          ELSE migrate_components(m.src, Tail(ids), index_in_archetype, m.dst)

\* helpers::index_twice: with first = second the second index is out of
\* bounds of the left half and the call panics
index_twice(slice, first, second) ==
  IF first = second \/ first >= Len(slice) \/ second >= Len(slice)
  THEN [panic |-> TRUE, first |-> At(slice, 0), second |-> At(slice, 0)]
  ELSE [panic |-> FALSE, first |-> At(slice, first), second |-> At(slice, second)]

\* -------------------------------------------------------------- World
VARIABLES
  entities,             \* World.entities: [entries, free]
  archetypes,           \* World.archetypes
  bundle_to_archetype,  \* World.bundle_to_archetype
  panicked,             \* TRUE once an operation has panicked (the run is over)
  issued,               \* the Entity handles spawn has returned to the caller
  last,                 \* the latest call: its arguments and its result
  calls,                \* the number of World calls made so far
  resolved,             \* per type set: the first spawn of a bundle of that set
                        \* (its type list and the archetype id it resolved to)
  borrows,              \* per column (archetype id, type id): the state of its
                        \* RwLock, the guards that callers hold
  pc,                   \* the position of the call in progress ("idle": none)
  frame                 \* the locals of the call in progress

vars ==
  <<entities, archetypes, bundle_to_archetype, panicked, issued, last, calls, resolved,
    borrows, pc, frame>>

\* the World value made of the three fields
World ==
  [entities |-> entities, archetypes |-> archetypes,
   bundle_to_archetype |-> bundle_to_archetype]

\* World::new
WorldNew == [entities |-> EntitiesDefault, archetypes |-> <<>>, bundle_to_archetype |-> <<>>]

\* mutant: the insert points every cached bundle id at the new archetype
set_bundle_archetype_remaps(map, bundle_id, archetype_id) ==
  [b \in DOMAIN map \cup {bundle_id} |-> archetype_id]

\* World::set_bundle_archetype (HashMap::insert)
set_bundle_archetype(map, bundle_id, archetype_id) ==
  [b \in DOMAIN map \cup {bundle_id} |-> IF b = bundle_id THEN archetype_id ELSE map[b]]

\* the `$(world.add_component_to_archetype(archetype_id, self.$index);)*` of
\* spawn_in_world: [panic, archetype]
RECURSIVE add_components_to_archetype(_, _, _)
add_components_to_archetype(archetype, types, values) ==
  IF types = <<>> THEN [panic |-> FALSE, archetype |-> archetype]
  ELSE IF types[1] \notin DOMAIN archetype.components
  THEN [panic |-> TRUE, archetype |-> archetype]
  ELSE add_components_to_archetype(
         add_entity_component(archetype, types[1], values[1]), Tail(types), Tail(values))

\* ComponentBundle::new_archetype
new_archetype(types, order) == NewArchetype(Range(types), order)

\* ComponentBundle::spawn_in_world: [panic, location, world]
spawn_in_world(w, types, values, entity_id, order) ==
  LET sorted == sort_unstable_by_type_id(types)
      bundle_id == calculate_bundle_id(sorted)
      cached == bundle_id \in DOMAIN w.bundle_to_archetype
      archetype_id == IF cached THEN w.bundle_to_archetype[bundle_id] ELSE Len(w.archetypes)
      w1 == IF cached THEN w
            ELSE [w EXCEPT !.bundle_to_archetype = set_bundle_archetype(@, bundle_id, archetype_id),
                           !.archetypes = Append(@, new_archetype(types, order))]
      index_in_archetype == Len(At(w1.archetypes, archetype_id).entities)
      added == add_entity(At(w1.archetypes, archetype_id), entity_id)
      pushed == add_components_to_archetype(added, types, values)
  IN [panic |-> pushed.panic,
      location |-> EntityLocation(archetype_id, index_in_archetype),
      world |-> [w1 EXCEPT !.archetypes[archetype_id + 1] = pushed.archetype]]

\* World::spawn: [result, entity, world]
spawn(w, types, values, order) ==
  LET a == allocate(w.entities)
      s == spawn_in_world([w EXCEPT !.entities = a.entities], types, values, a.entity.index, order)
      l == set_location(s.world.entities, a.entity.index, s.location)
  IN IF a.result # "Ok" THEN [result |-> "panic", entity |-> a.entity, world |-> w]
     ELSE IF s.panic \/ l.result # "Ok" THEN [result |-> "panic", entity |-> a.entity, world |-> w]
     ELSE [result |-> "Ok", entity |-> a.entity, world |-> [s.world EXCEPT !.entities = l.entities]]

\* World::remove: [result, world]
remove(w, entity) ==
  LET d == deallocate(w.entities, entity)
  IN IF d.result # "Ok" THEN [result |-> "panic", world |-> w]
     ELSE [result |-> "Ok", world |-> [w EXCEPT !.entities = d.entities]]

\* World::entity_count
entity_count(w) == count(w.entities)

\* World::has_component
has_component(w, entity, type_id) ==
  IF live_at_index(w.entities, entity.index)
  THEN has_component_in(
         At(w.archetypes, At(w.entities.entries, entity.index).location.archetype_id), type_id)
  ELSE FALSE

\* the columns of the archetype that add_component or remove_component creates
\* for `entity` and `type_id` when the bundle cache has none: clones of the
\* columns of the entity's archetype, and a column for type_id
new_columns(w, entity, type_id) ==
  IF live_at_index(w.entities, entity.index)
  THEN DOMAIN At(w.archetypes,
                 At(w.entities.entries, entity.index).location.archetype_id).components
       \cup {type_id}
  ELSE {}

\* the archetype index that add_component and remove_component resolve the
\* new type list to: the cached one, or the index of the archetype to create
resolve_archetype_idx(w, new_type_ids) ==
  IF calculate_bundle_id(new_type_ids) \in DOMAIN w.bundle_to_archetype
  THEN w.bundle_to_archetype[calculate_bundle_id(new_type_ids)]
  ELSE Len(w.archetypes)

\* World::add_component: [result, world]. `order` is the HashMap order of the
\* archetype the call creates, `impl` the binary_search loop of the build.
add_component(w, entity, type_id, component, order, impl) ==
  IF ~live_at_index(w.entities, entity.index)
  THEN [result |-> "DoesNotExist", world |-> w]
  ELSE
    LET entry == At(w.entities.entries, entity.index)
        old_idx == entry.location.archetype_id
        row == entry.location.index_in_archetype
        current_type_ids == At(w.archetypes, old_idx).order
        binary_search_index == binary_search(impl, current_type_ids, type_id)
    IN
    IF binary_search_index.ok
    THEN \* Component already exists, just overwrite
      LET s == set_entity_component(At(w.archetypes, old_idx), row, type_id, component)
      IN IF s.result # "Ok" THEN [result |-> "panic", world |-> w]
         ELSE [result |-> "Ok", world |-> [w EXCEPT !.archetypes[old_idx + 1] = s.archetype]]
    ELSE
      LET new_type_ids == InsertAt(current_type_ids, binary_search_index.idx, type_id)
          bundle_id == calculate_bundle_id(new_type_ids)
          cached == bundle_id \in DOMAIN w.bundle_to_archetype
          new_archetype_idx == resolve_archetype_idx(w, new_type_ids)
          w1 == IF cached THEN w
                ELSE [w EXCEPT
                        !.bundle_to_archetype = set_bundle_archetype(@, bundle_id, new_archetype_idx),
                        !.archetypes = Append(@, NewArchetype(new_columns(w, entity, type_id), order))]
          split == index_twice(w1.archetypes, old_idx, new_archetype_idx)
      IN
      IF split.panic THEN [result |-> "panic", world |-> w]
      ELSE
        LET new_idx_in_archetype == Len(split.second.entities)
            added == add_entity(split.second, entity.index)
            located == set_location(w1.entities, entity.index,
                                    EntityLocation(new_archetype_idx, new_idx_in_archetype))
            migrated == migrate_components(split.first, current_type_ids, row, added)
        IN
        IF located.result # "Ok"
        THEN [result |-> located.result,
              world |-> [w1 EXCEPT !.archetypes[new_archetype_idx + 1] = added]]
        ELSE IF migrated.panic \/ type_id \notin DOMAIN migrated.dst.components
        THEN [result |-> "panic", world |-> w]
        ELSE
          LET pushed == add_entity_component(migrated.dst, type_id, component)
              removed == remove_entity(migrated.src, row)
              w2 == [w1 EXCEPT !.entities = located.entities,
                               !.archetypes[old_idx + 1] = removed.archetype,
                               !.archetypes[new_archetype_idx + 1] = pushed]
              relocated == set_location(w2.entities, removed.moved, entry.location)
          IN
          IF removed.panic THEN [result |-> "panic", world |-> w]
          ELSE IF removed.has_moved
          THEN [result |-> relocated.result, world |-> [w2 EXCEPT !.entities = relocated.entities]]
          ELSE [result |-> "Ok", world |-> w2]

\* World::remove_component: [result, world]
remove_component(w, entity, type_id, order, impl) ==
  IF ~live_at_index(w.entities, entity.index)
  THEN [result |-> "DoesNotExist", world |-> w]
  ELSE
    LET entry == At(w.entities.entries, entity.index)
        old_idx == entry.location.archetype_id
        row == entry.location.index_in_archetype
        current_type_ids == At(w.archetypes, old_idx).order
        type_id_idx == binary_search(impl, current_type_ids, type_id)
    IN
    IF ~type_id_idx.ok
    THEN [result |-> "ComponentMissing", world |-> w]
    ELSE
      LET new_type_ids == RemoveAt(current_type_ids, type_id_idx.idx)
          bundle_id == calculate_bundle_id(new_type_ids)
          cached == bundle_id \in DOMAIN w.bundle_to_archetype
          new_archetype_idx == resolve_archetype_idx(w, new_type_ids)
          \* every column of the source is cloned, and then a column for
          \* type_id is inserted (which the clone already holds)
          w1 == IF cached THEN w
                ELSE [w EXCEPT
                        !.bundle_to_archetype = set_bundle_archetype(@, bundle_id, new_archetype_idx),
                        !.archetypes = Append(@, NewArchetype(new_columns(w, entity, type_id), order))]
          split == index_twice(w1.archetypes, old_idx, new_archetype_idx)
      IN
      IF split.panic THEN [result |-> "panic", world |-> w]
      ELSE
        LET new_idx_in_archetype == Len(split.second.entities)
            added == add_entity(split.second, entity.index)
            located == set_location(w1.entities, entity.index,
                                    EntityLocation(new_archetype_idx, new_idx_in_archetype))
            migrated == migrate_components(split.first, new_type_ids, row, added)
        IN
        IF located.result # "Ok"
        THEN [result |-> located.result,
              world |-> [w1 EXCEPT !.archetypes[new_archetype_idx + 1] = added]]
        ELSE IF migrated.panic
        THEN [result |-> "panic", world |-> w]
        ELSE
          LET removed == remove_entity(migrated.src, row)
              w2 == [w1 EXCEPT !.entities = located.entities,
                               !.archetypes[old_idx + 1] = removed.archetype,
                               !.archetypes[new_archetype_idx + 1] = migrated.dst]
              relocated == set_location(w2.entities, removed.moved, entry.location)
          IN
          IF removed.panic THEN [result |-> "panic", world |-> w]
          ELSE IF removed.has_moved
          THEN [result |-> relocated.result, world |-> [w2 EXCEPT !.entities = relocated.entities]]
          ELSE [result |-> "Ok", world |-> w2]

\* ------------------------------------------------------- column locks
\* an RwLock that nobody holds
Unlocked == [readers |-> 0, writer |-> FALSE]

\* the locks of all columns, none held
NoBorrows == [c \in (0..(MaxArchetypes - 1)) \X TypeIds |-> Unlocked]

\* mutant: try_read is granted whoever holds the lock
try_read_beside_writer(lock) == [ok |-> TRUE, lock |-> [lock EXCEPT !.readers = @ + 1]]

\* RwLock::try_read: refused when the lock is held for writing
try_read(lock) ==
  IF lock.writer THEN [ok |-> FALSE, lock |-> lock]
  ELSE [ok |-> TRUE, lock |-> [lock EXCEPT !.readers = @ + 1]]

\* RwLock::try_write: refused when the lock is held at all
try_write(lock) ==
  IF lock.writer \/ lock.readers > 0 THEN [ok |-> FALSE, lock |-> lock]
  ELSE [ok |-> TRUE, lock |-> [lock EXCEPT !.writer = TRUE]]

\* no call has begun and not returned
NoFrame == [op |-> "none"]

\* ------------------------------------------------------------ actions
\* the caps that keep the state space finite
WithinBounds(w) ==
  /\ Len(w.entities.entries) <= MaxEntries
  /\ Len(w.archetypes) <= MaxArchetypes
  /\ \A a \in DOMAIN w.archetypes :
       /\ Len(w.archetypes[a].entities) <= MaxRows
       /\ \A t \in DOMAIN w.archetypes[a].components :
            Len(w.archetypes[a].components[t]) <= MaxRows

\* the handles a caller can pass: those spawn has returned (live or stale)
Handles == issued

NoEntity == Entity(0, 0)

Call(op, entity, types, values, result) ==
  [op |-> op, entity |-> entity, types |-> types, values |-> values, result |-> result]

\* the effect of a call that returned (or panicked) with world w
\* (a `&mut self` method: the borrow checker admits the call only when no
\* column guard, which borrows the World, is alive)
Returns(result, w) ==
  /\ pc = "idle"
  /\ borrows = NoBorrows
  /\ UNCHANGED <<borrows, pc, frame>>
  /\ WithinBounds(w)
  /\ calls < MaxCalls
  /\ calls' = calls + 1
  /\ panicked' = (result = "panic")
  /\ entities' = w.entities
  /\ archetypes' = w.archetypes
  /\ bundle_to_archetype' = w.bundle_to_archetype

Init ==
  /\ entities = WorldNew.entities
  /\ archetypes = WorldNew.archetypes
  /\ bundle_to_archetype = WorldNew.bundle_to_archetype
  /\ panicked = FALSE
  /\ issued = {}
  /\ last = Call("new", NoEntity, <<>>, <<>>, "Ok")
  /\ calls = 0
  /\ resolved = <<>>
  /\ borrows = NoBorrows
  /\ pc = "idle"
  /\ frame = NoFrame

Spawn ==
  /\ ~panicked
  /\ \E types \in BundleTypes : \E values \in [DOMAIN types -> Values] :
     \E order \in IterationOrders(Range(types)) :
       LET r == spawn(World, types, values, order) IN
       /\ Returns(r.result, r.world)
       /\ issued' = IF r.result = "Ok" THEN issued \cup {r.entity} ELSE issued
       /\ last' = Call("spawn", r.entity, types, values, r.result)
       /\ resolved' =
            IF r.result # "Ok" \/ Range(types) \in DOMAIN resolved THEN resolved
            ELSE [S \in DOMAIN resolved \cup {Range(types)} |->
                    IF S \in DOMAIN resolved THEN resolved[S]
                    ELSE [types |-> types,
                          archetype_id |->
                            At(r.world.entities.entries, r.entity.index).location.archetype_id]]

Remove ==
  /\ ~panicked
  /\ \E entity \in Handles :
       LET r == remove(World, entity) IN
       /\ Returns(r.result, r.world)
       /\ last' = Call("remove", entity, <<>>, <<>>, r.result)
       /\ UNCHANGED <<issued, resolved>>

AddComponent ==
  /\ ~panicked
  /\ \E entity \in Handles : \E type_id \in TypeIds : \E component \in Values :
     \E order \in IterationOrders(new_columns(World, entity, type_id)) :
     \E impl \in BinarySearchImpls :
       LET r == add_component(World, entity, type_id, component, order, impl) IN
       /\ Returns(r.result, r.world)
       /\ last' = Call("add_component", entity, <<type_id>>, <<component>>, r.result)
       /\ UNCHANGED <<issued, resolved>>

RemoveComponent ==
  /\ ~panicked
  /\ \E entity \in Handles : \E type_id \in TypeIds :
     \E order \in IterationOrders(new_columns(World, entity, type_id)) :
     \E impl \in BinarySearchImpls :
       LET r == remove_component(World, entity, type_id, order, impl) IN
       /\ Returns(r.result, r.world)
       /\ last' = Call("remove_component", entity, <<type_id>>, <<>>, r.result)
       /\ UNCHANGED <<issued, resolved>>

Next == Spawn \/ Remove \/ AddComponent \/ RemoveComponent

Spec == Init /\ [][Next]_vars

\* ------------------------------------------- the entity table on its own
\* The methods of Entities called directly, with any handle: an index never
\* allocated (MaxEntries), a freed slot, a generation the slot does not have.
TableHandles == {Entity(i, g) : i \in 0..MaxEntries, g \in 0..MaxGeneration}

\* the locations set_location is given
Locations == {EntityLocation(0, r) : r \in 0..(MaxRows - 1)}

\* the effect on the table of a call that returned (or panicked) with es
TableReturns(result, es) ==
  /\ Len(es.entries) <= MaxEntries
  /\ entities' = es
  /\ panicked' = (result = "panic")
  /\ UNCHANGED <<archetypes, bundle_to_archetype, calls, resolved, borrows, pc, frame>>

Allocate ==
  /\ ~panicked
  /\ LET a == allocate(entities) IN
     /\ TableReturns(a.result, a.entities)
     /\ issued' = IF a.result = "Ok" THEN issued \cup {a.entity} ELSE issued
     /\ last' = Call("allocate", a.entity, <<>>, <<>>, a.result)

Deallocate ==
  /\ ~panicked
  /\ \E entity \in TableHandles :
       LET d == deallocate(entities, entity) IN
       /\ TableReturns(d.result, d.entities)
       /\ last' = Call("deallocate", entity, <<>>, <<>>, d.result)
       /\ UNCHANGED issued

\* set_location takes an EntityId (an index) and a location; `last` records
\* the location as <<archetype_id, index_in_archetype>>
SetLocation ==
  /\ ~panicked
  /\ \E entity_id \in 0..MaxEntries : \E location \in Locations :
       LET l == set_location(entities, entity_id, location) IN
       /\ TableReturns(l.result, l.entities)
       /\ last' = Call("set_location", Entity(entity_id, 0), <<>>,
                       <<location.archetype_id, location.index_in_archetype>>, l.result)
       /\ UNCHANGED issued

EntitiesNext == Allocate \/ Deallocate \/ SetLocation

EntitiesSpec == Init /\ [][EntitiesNext]_vars

\* ------------------------------------------------- queries and borrows
\* A World filled by spawn, whose columns are fetched through `&self`. A guard
\* lives until its holder drops it.
Modes == {"read", "write"}

\* QueryParameterFetchRead::fetch / QueryParameterFetchWrite::fetch:
\* [result, borrows]. get_archetype indexes the Vec, the column lookup and the
\* try-lock are unwrapped: each failure is a panic.
fetch(w, b, mode, archetype_id, type_id) ==
  IF archetype_id >= Len(w.archetypes) THEN [result |-> "panic", borrows |-> b]
  ELSE IF type_id \notin DOMAIN At(w.archetypes, archetype_id).components
  THEN [result |-> "panic", borrows |-> b]
  ELSE LET lock == b[<<archetype_id, type_id>>]
           got == IF mode = "read" THEN try_read(lock) ELSE try_write(lock)
       IN IF ~got.ok THEN [result |-> "panic", borrows |-> b]
          ELSE [result |-> "Ok", borrows |-> [b EXCEPT ![<<archetype_id, type_id>>] = got.lock]]

\* queries::query (and World::query, which unwraps its Some): the parameter is
\* fetched from archetype 0
query(w, b, mode, type_id) == fetch(w, b, mode, 0, type_id)

\* ComponentSet::len: `self.read().unwrap().len()`. read() waits while the lock
\* is held for writing; the holder is the calling thread, for which the
\* standard library promises either a panic or a wait that never ends.
LenOutcomes(lock) == IF lock.writer THEN {"panic", "blocked"} ELSE {"Ok"}

\* the effect of a `&self` call that returned (or panicked) with locks b
QueryReturns(result, b) ==
  /\ pc = "idle"
  /\ \A c \in DOMAIN b : b[c].readers <= MaxReaders
  /\ borrows' = b
  /\ panicked' = (result = "panic")
  /\ UNCHANGED <<entities, archetypes, bundle_to_archetype, issued, calls, resolved, pc, frame>>

Fetch ==
  /\ ~panicked
  /\ \E mode \in Modes : \E archetype_id \in 0..(MaxArchetypes - 1) : \E type_id \in TypeIds :
       LET f == fetch(World, borrows, mode, archetype_id, type_id) IN
       /\ QueryReturns(f.result, f.borrows)
       /\ last' = Call("fetch_" \o mode, NoEntity, <<type_id>>, <<archetype_id>>, f.result)

Query ==
  /\ ~panicked
  /\ \E mode \in Modes : \E type_id \in TypeIds :
       LET q == query(World, borrows, mode, type_id) IN
       /\ QueryReturns(q.result, q.borrows)
       /\ last' = Call("query_" \o mode, NoEntity, <<type_id>>, <<>>, q.result)

\* a RwLockReadGuard goes out of scope
DropRead ==
  /\ ~panicked
  /\ \E c \in DOMAIN borrows :
       /\ borrows[c].readers > 0
       /\ QueryReturns("Ok", [borrows EXCEPT ![c].readers = @ - 1])
       /\ last' = Call("drop_read", NoEntity, <<c[2]>>, <<c[1]>>, "Ok")

\* a RwLockWriteGuard goes out of scope
DropWrite ==
  /\ ~panicked
  /\ \E c \in DOMAIN borrows :
       /\ borrows[c].writer
       /\ QueryReturns("Ok", [borrows EXCEPT ![c].writer = FALSE])
       /\ last' = Call("drop_write", NoEntity, <<c[2]>>, <<c[1]>>, "Ok")

\* ComponentSet::len of a column of the World
ColumnLen ==
  /\ ~panicked
  /\ pc = "idle"
  /\ \E c \in DOMAIN borrows :
       /\ c[1] < Len(archetypes)
       /\ c[2] \in DOMAIN At(archetypes, c[1]).components
       /\ \E outcome \in LenOutcomes(borrows[c]) :
            /\ pc' = IF outcome = "blocked" THEN "blocked" ELSE pc
            /\ panicked' = (outcome = "panic")
            /\ last' = Call("len", NoEntity, <<c[2]>>, <<c[1]>>, outcome)
  /\ UNCHANGED <<entities, archetypes, bundle_to_archetype, issued, calls, resolved,
                 borrows, frame>>

\* ---------------------------------------- component calls, step by step
\* add_component and remove_component followed statement by statement through
\* a migration; spawn and remove are single steps. Entities are spawned with
\* one-component bundles.
StepBundles == {<<t>> : t \in TypeIds}

WithinDeepBounds(w) ==
  /\ Len(w.entities.entries) <= MaxEntries
  /\ Len(w.archetypes) <= MaxArchetypes
  /\ \A a \in DOMAIN w.archetypes :
       /\ Len(w.archetypes[a].entities) <= DeepRows
       /\ \A t \in DOMAIN w.archetypes[a].components :
            Len(w.archetypes[a].components[t]) <= DeepRows

\* the call takes the migrating path: the entry is live, and the search for
\* type_id fails (add_component) or succeeds (remove_component)
Migrates(w, op, entity, type_id, impl) ==
  /\ live_at_index(w.entities, entity.index)
  /\ LET found == binary_search(
                  impl,
                  At(w.archetypes,
                     At(w.entities.entries, entity.index).location.archetype_id).order,
                  type_id) IN
     IF op = "add_component" THEN ~found.ok ELSE found.ok

\* a migrating call up to and including `new_archetype.add_entity(entity.index)`:
\* the new type list, the destination (cached or created), index_twice and the
\* new row: [panic, world, frame]
begin_migration(w, op, entity, type_id, component, order, impl) ==
  LET entry == At(w.entities.entries, entity.index)
      old_idx == entry.location.archetype_id
      current_type_ids == At(w.archetypes, old_idx).order
      found == binary_search(impl, current_type_ids, type_id)
      new_type_ids == IF op = "add_component"
                      THEN InsertAt(current_type_ids, found.idx, type_id)
                      ELSE RemoveAt(current_type_ids, found.idx)
      bundle_id == calculate_bundle_id(new_type_ids)
      new_archetype_idx == resolve_archetype_idx(w, new_type_ids)
      w1 == IF bundle_id \in DOMAIN w.bundle_to_archetype THEN w
            ELSE [w EXCEPT
                    !.bundle_to_archetype = set_bundle_archetype(@, bundle_id, new_archetype_idx),
                    !.archetypes = Append(@, NewArchetype(new_columns(w, entity, type_id), order))]
      split == index_twice(w1.archetypes, old_idx, new_archetype_idx)
  IN [panic |-> split.panic,
      world |-> IF split.panic THEN w1
                ELSE [w1 EXCEPT !.archetypes[new_archetype_idx + 1] =
                                   add_entity(split.second, entity.index)],
      frame |-> [op |-> op, entity |-> entity, type_id |-> type_id, component |-> component,
                 old_idx |-> old_idx, location |-> entry.location,
                 new_archetype_idx |-> new_archetype_idx,
                 new_idx_in_archetype |-> IF split.panic THEN 0 ELSE Len(split.second.entities),
                 ids |-> IF op = "add_component" THEN current_type_ids ELSE new_type_ids,
                 moved |-> 0,
                 start |-> w, order |-> order, impl |-> impl]]

\* the World after a step of the call in progress
StepTo(w) ==
  /\ entities' = w.entities
  /\ archetypes' = w.archetypes
  /\ bundle_to_archetype' = w.bundle_to_archetype
  /\ UNCHANGED <<resolved, borrows>>

\* the call in progress returns `result` (or panics)
StepReturn(result, f) ==
  /\ pc' = "idle"
  /\ panicked' = (result = "panic")
  /\ calls' = calls + 1
  /\ last' = Call(f.op, f.entity, <<f.type_id>>,
                  IF f.op = "add_component" THEN <<f.component>> ELSE <<>>, result)
  /\ frame' = NoFrame
  /\ UNCHANGED issued

\* the call in progress goes on at position `at` with locals f
StepOn(at, f) ==
  /\ pc' = at
  /\ frame' = f
  /\ UNCHANGED <<panicked, calls, last, issued>>

\* a call that is a single step: spawn, remove, and the component calls that
\* do not migrate
StepCall(call, result, w) ==
  /\ WithinDeepBounds(w)
  /\ StepTo(w)
  /\ pc' = "idle"
  /\ panicked' = (result = "panic")
  /\ calls' = calls + 1
  /\ last' = call
  /\ frame' = NoFrame

\* no call is in progress and another may begin
Idle == ~panicked /\ pc = "idle" /\ borrows = NoBorrows /\ calls < DeepCalls

StepSpawn ==
  /\ Idle
  /\ \E types \in StepBundles : \E values \in [DOMAIN types -> Values] :
       LET r == spawn(World, types, values, types) IN
       /\ StepCall(Call("spawn", r.entity, types, values, r.result), r.result, r.world)
       /\ issued' = IF r.result = "Ok" THEN issued \cup {r.entity} ELSE issued

StepRemove ==
  /\ Idle
  /\ \E entity \in Handles :
       LET r == remove(World, entity) IN
       /\ StepCall(Call("remove", entity, <<>>, <<>>, r.result), r.result, r.world)
       /\ UNCHANGED issued

\* add_component / remove_component from entry to the new row in the
\* destination; the paths that do not migrate return here
BeginComponentCall ==
  /\ Idle
  /\ \E op \in {"add_component", "remove_component"} :
     \E entity \in Handles : \E type_id \in TypeIds : \E component \in Values :
     \E order \in IterationOrders(new_columns(World, entity, type_id)) :
     \E impl \in BinarySearchImpls :
       /\ op = "remove_component" => component = 1
       /\ IF Migrates(World, op, entity, type_id, impl)
          THEN LET b == begin_migration(World, op, entity, type_id, component, order, impl) IN
               /\ WithinDeepBounds(b.world)
               /\ StepTo(b.world)
               /\ IF b.panic THEN StepReturn("panic", b.frame)
                  ELSE StepOn("row_added", b.frame)
          ELSE LET r == IF op = "add_component"
                        THEN add_component(World, entity, type_id, component, order, impl)
                        ELSE remove_component(World, entity, type_id, order, impl) IN
               /\ StepCall(Call(op, entity, <<type_id>>,
                                IF op = "add_component" THEN <<component>> ELSE <<>>, r.result),
                           r.result, r.world)
               /\ UNCHANGED issued

\* self.entities.set_location(entity.index, EntityLocation::new(..)).map_err(..)?
UpdateLocation ==
  /\ ~panicked
  /\ pc = "row_added"
  /\ LET l == set_location(entities, frame.entity.index,
                           EntityLocation(frame.new_archetype_idx, frame.new_idx_in_archetype)) IN
     /\ StepTo([World EXCEPT !.entities = l.entities])
     /\ IF l.result = "Ok" THEN StepOn("located", frame) ELSE StepReturn(l.result, frame)

\* one turn of `for type_id in .. { old_archetype.migrate_component(..) }`
MigrateNext ==
  /\ ~panicked
  /\ pc = "located"
  /\ frame.ids # <<>>
  /\ LET m == migrate_component(At(archetypes, frame.old_idx), Head(frame.ids),
                                frame.location.index_in_archetype,
                                At(archetypes, frame.new_archetype_idx)) IN
     /\ StepTo([World EXCEPT !.archetypes[frame.old_idx + 1] = m.src,
                             !.archetypes[frame.new_archetype_idx + 1] = m.dst])
     /\ IF m.panic THEN StepReturn("panic", frame)
        ELSE StepOn("located", [frame EXCEPT !.ids = Tail(@)])

\* new_archetype.add_entity_component(component), in add_component only
PushComponent ==
  /\ ~panicked
  /\ pc = "located"
  /\ frame.ids = <<>>
  /\ frame.op = "add_component"
  /\ IF frame.type_id \in DOMAIN At(archetypes, frame.new_archetype_idx).components
     THEN /\ StepTo([World EXCEPT !.archetypes[frame.new_archetype_idx + 1] =
                       add_entity_component(@, frame.type_id, frame.component)])
          /\ WithinDeepBounds(World')
          /\ StepOn("pushed", frame)
     ELSE StepTo(World) /\ StepReturn("panic", frame)

\* old_archetype.remove_entity(entry.location.index_in_archetype)
RemoveRow ==
  /\ ~panicked
  /\ \/ pc = "pushed"
     \/ pc = "located" /\ frame.ids = <<>> /\ frame.op = "remove_component"
  /\ LET r == remove_entity(At(archetypes, frame.old_idx), frame.location.index_in_archetype) IN
     /\ StepTo([World EXCEPT !.archetypes[frame.old_idx + 1] = r.archetype])
     /\ IF r.panic THEN StepReturn("panic", frame)
        ELSE IF r.has_moved THEN StepOn("row_removed", [frame EXCEPT !.moved = r.moved])
        ELSE StepReturn("Ok", frame)

\* self.entities.set_location(moved, entry.location).map_err(..)?; Ok(())
UpdateMoved ==
  /\ ~panicked
  /\ pc = "row_removed"
  /\ LET l == set_location(entities, frame.moved, frame.location) IN
     /\ StepTo([World EXCEPT !.entities = l.entities])
     /\ StepReturn(l.result, frame)

StepNext ==
  \/ StepSpawn \/ StepRemove \/ BeginComponentCall
  \/ UpdateLocation \/ MigrateNext \/ PushComponent \/ RemoveRow \/ UpdateMoved

StepSpec == Init /\ [][StepNext]_vars

QueryNext == Spawn \/ Fetch \/ Query \/ DropRead \/ DropWrite \/ ColumnLen

QuerySpec == Init /\ [][QueryNext]_vars

\* ------------------------------------------------------------- claims
\* the indices of the live table slots
LiveIndexes ==
  {i \in 0..(Len(entities.entries) - 1) : At(entities.entries, i).is_live}

\* the recorded location of table slot i in world w
LocationOf(w, i) == At(w.entities.entries, i).location

\* the archetype that slot i is recorded to be in
ArchetypeOf(w, i) == At(w.archetypes, LocationOf(w, i).archetype_id)

\* the column type ids of that archetype
ColumnSetOf(w, i) == DOMAIN ArchetypeOf(w, i).components

\* the value of column t at the recorded row of slot i (0, which is no value,
\* when the column does not reach that row)
ValueAt(w, i, t) ==
  LET column == ArchetypeOf(w, i).components[t]
      row == LocationOf(w, i).index_in_archetype
  IN IF row < Len(column) THEN At(column, row) ELSE 0

\* the latest call was a component call that returned Ok on a live handle
\* (stated on a step: `last'` is the call, the unprimed world its pre-state)
ComponentCallOk(op) ==
  /\ last'.op = op
  /\ last'.result = "Ok"
  /\ is_live(entities, last'.entity)

\* C1: for every live entity table entry at index i with location (a, r),
\* archetype a exists, r < archetypes[a].entities.len() and
\* archetypes[a].entities[r] = i.
C1_LiveLocationHoldsOwnIndex ==
  \A i \in LiveIndexes :
    LET l == LocationOf(World, i) IN
    /\ l.archetype_id < Len(archetypes)
    /\ l.index_in_archetype < Len(At(archetypes, l.archetype_id).entities)
    /\ At(At(archetypes, l.archetype_id).entities, l.index_in_archetype) = i

\* C1 witness: entity 0 (first row of the first archetype) has migrated away and
\* entity 1, displaced from a later row, is now recorded at row 0 of that
\* archetype.
C1_Witness ==
  /\ last.op \in {"add_component", "remove_component"}
  /\ last.result = "Ok"
  /\ last.entity.index = 0
  /\ {0, 1} \subseteq LiveIndexes
  /\ LocationOf(World, 0).archetype_id # 0
  /\ LocationOf(World, 1) = EntityLocation(0, 0)
  /\ At(archetypes, 0).entities = <<1>>

\* C2: in every archetype each component column is as long as the entities
\* sequence.
C2_ColumnsAsLongAsEntities ==
  \A a \in DOMAIN archetypes :
    \A t \in DOMAIN archetypes[a].components :
      Len(archetypes[a].components[t]) = Len(archetypes[a].entities)

\* C3: when remove_component<T>(e) returns Ok for a live e whose archetype has
\* column set S with T in S, e's archetype afterwards has column set S \ {T}:
\* has_component<T>(e) is false and has_component<U>(e) is true for the other U.
C3_RemoveComponentDropsExactlyT ==
  [][(/\ ComponentCallOk("remove_component")
      /\ last'.types[1] \in ColumnSetOf(World, last'.entity.index)) =>
       LET e == last'.entity
           T == last'.types[1]
           S == ColumnSetOf(World, e.index)
       IN /\ ColumnSetOf(World', e.index) = S \ {T}
          /\ ~has_component(World', e, T)
          /\ \A U \in S \ {T} : has_component(World', e, U)]_vars

\* C4: when add_component<T>(e, v) returns Ok for a live e whose archetype has
\* column set S without T, e's archetype afterwards has column set S + {T}, the
\* T value at e's new row is v and has_component<T>(e) is true.
C4_AddComponentAddsExactlyT ==
  [][(/\ ComponentCallOk("add_component")
      /\ last'.types[1] \notin ColumnSetOf(World, last'.entity.index)) =>
       LET e == last'.entity
           T == last'.types[1]
           S == ColumnSetOf(World, e.index)
       IN /\ ColumnSetOf(World', e.index) = S \cup {T}
          /\ has_component(World', e, T)
          /\ ValueAt(World', e.index, T) = last'.values[1]]_vars

\* C5: migration preserves data: after an add_component or remove_component of
\* T that returned Ok, the entity's components are those it had, with T added
\* or removed, and every component it keeps has at its new row the value it had
\* at its old row.
C5_MigrationPreservesData ==
  [][(ComponentCallOk("add_component") \/ ComponentCallOk("remove_component")) =>
       LET e == last'.entity
           T == last'.types[1]
           S == ColumnSetOf(World, e.index)
       IN /\ ColumnSetOf(World', e.index) =
               IF last'.op = "add_component" THEN S \cup {T} ELSE S \ {T}
          /\ \A U \in S \ {T} :
               ValueAt(World', e.index, U) = ValueAt(World, e.index, U)]_vars

\* C6: displacement fix-up: when a migration moves an entity out of a row that
\* is not the last of its source archetype, every other live entity of the
\* source is still recorded in the source at a row holding its own index, and
\* every column of the source has at that row the value the entity had before.
C6_DisplacementKeepsRowsAligned ==
  [][(/\ ComponentCallOk("add_component") \/ ComponentCallOk("remove_component")
      /\ At(archetypes', LocationOf(World, last'.entity.index).archetype_id).entities
           # ArchetypeOf(World, last'.entity.index).entities
      /\ LocationOf(World, last'.entity.index).index_in_archetype
           < Len(ArchetypeOf(World, last'.entity.index).entities) - 1) =>
       LET src == LocationOf(World, last'.entity.index).archetype_id IN
       \A x \in LiveIndexes \ {last'.entity.index} :
         LocationOf(World, x).archetype_id = src =>
           /\ LocationOf(World', x).archetype_id = src
           /\ LocationOf(World', x).index_in_archetype < Len(ArchetypeOf(World', x).entities)
           /\ At(ArchetypeOf(World', x).entities, LocationOf(World', x).index_in_archetype) = x
           /\ \A c \in ColumnSetOf(World, x) :
                ValueAt(World', x, c) = ValueAt(World, x, c)]_vars

\* C7: no two archetypes of the World have the same set of column type ids.
C7_OneArchetypePerTypeSet ==
  \A a \in DOMAIN archetypes : \A b \in DOMAIN archetypes :
    a # b => DOMAIN archetypes[a].components # DOMAIN archetypes[b].components

\* C8: a spawn of a bundle whose type set was spawned before, in any order and
\* with any values, creates no archetype and places its entity in the archetype
\* id that the first spawn of that type set resolved to.
C8_SameTypeSetSameArchetype ==
  [][(/\ last'.op = "spawn"
      /\ last'.result = "Ok"
      /\ Range(last'.types) \in DOMAIN resolved) =>
       /\ Len(archetypes') = Len(archetypes)
       /\ LocationOf(World', last'.entity.index).archetype_id
            = resolved[Range(last'.types)].archetype_id]_vars

\* C8 witness: a spawn whose bundle lists the types of an earlier spawn in
\* another order has landed in that spawn's archetype.
C8_Witness ==
  /\ last.op = "spawn"
  /\ last.result = "Ok"
  /\ Range(last.types) \in DOMAIN resolved
  /\ resolved[Range(last.types)].types # last.types
  /\ LocationOf(World, last.entity.index).archetype_id
       = resolved[Range(last.types)].archetype_id
  /\ LocationOf(World, last.entity.index).index_in_archetype > 0

\* C9: round trip: immediately after a spawn, each column of a bundle type holds
\* at the entity's recorded row the value the bundle supplied for that type.
C9_SpawnRoundTrip ==
  (last.op = "spawn" /\ last.result = "Ok") =>
    \A k \in DOMAIN last.types :
      /\ last.types[k] \in ColumnSetOf(World, last.entity.index)
      /\ ValueAt(World, last.entity.index, last.types[k]) = last.values[k]

\* C10: generational safety: a handle that spawn returned and that is no longer
\* live (remove deallocated it) is not live in any later state; a spawn that
\* reuses its index returns a handle of a strictly larger generation.
C10_GenerationalSafety ==
  [][/\ \A h \in issued : ~is_live(entities, h) => ~is_live(entities', h)
     /\ (last'.op = "spawn" /\ last'.result = "Ok") =>
          \A h \in issued :
            h.index = last'.entity.index =>
              /\ ~is_live(entities', h)
              /\ h.generation < last'.entity.generation]_vars

\* C10 witness: a spawn has reused the index of a removed entity; the old handle
\* is not live, the new one is.
C10_Witness ==
  /\ last.op = "spawn"
  /\ last.result = "Ok"
  /\ is_live(entities, last.entity)
  /\ \E h \in issued :
       /\ h.index = last.entity.index
       /\ h.generation < last.entity.generation
       /\ ~is_live(entities, h)

\* C11: add_component and remove_component called with a handle that is not
\* live (slot deallocated, or reused under another generation) return
\* DoesNotExist and leave the entity table, the archetypes and the bundle cache
\* as they were.
C11_NotLiveHandleDoesNotExist ==
  [][(/\ last'.op \in {"add_component", "remove_component"}
      /\ ~is_live(entities, last'.entity)) =>
       /\ last'.result = "DoesNotExist"
       /\ World' = World]_vars

\* C12: has_component<T>(e) is false for every handle e that is not live, also
\* when the index of e has been reused by a live entity that has T.
C12_HasComponentFalseWhenNotLive ==
  \A h \in issued : \A t \in TypeIds :
    ~is_live(entities, h) => ~has_component(World, h, t)

\* C13: every row r of every archetype a holds the index of a live table slot
\* whose recorded location is (a, r).
C13_EveryRowIsLiveAndLocated ==
  \A a \in DOMAIN archetypes : \A r \in DOMAIN archetypes[a].entities :
    LET i == archetypes[a].entities[r] IN
    /\ live_at_index(entities, i)
    /\ LocationOf(World, i) = EntityLocation(a - 1, r - 1)

\* C14: overwrite: add_component<T>(e, v) on a live entity whose archetype has a
\* T column returns Ok, puts v in the T column at e's row and changes nothing
\* else: the entity table, the bundle cache, the number of archetypes and every
\* other stored value are as before.
C14_OverwriteChangesOnlyTheValue ==
  [][(/\ last'.op = "add_component"
      /\ is_live(entities, last'.entity)
      /\ last'.types[1] \in ColumnSetOf(World, last'.entity.index)) =>
       LET T == last'.types[1]
           l == LocationOf(World, last'.entity.index)
       IN /\ last'.result = "Ok"
          /\ l.index_in_archetype < Len(At(archetypes, l.archetype_id).components[T])
          /\ archetypes' =
               [archetypes EXCEPT
                  ![l.archetype_id + 1].components[T][l.index_in_archetype + 1] = last'.values[1]]
          /\ entities' = entities
          /\ bundle_to_archetype' = bundle_to_archetype]_vars

\* C15: remove_component<T>(e) on a live entity returns ComponentMissing exactly
\* when the entity's archetype has no T column, and then the entity table, the
\* archetypes and the bundle cache are as before.
C15_ComponentMissingIffNoColumn ==
  [][(/\ last'.op = "remove_component"
      /\ is_live(entities, last'.entity)) =>
       /\ (last'.result = "ComponentMissing")
            <=> (last'.types[1] \notin ColumnSetOf(World, last'.entity.index))
       /\ (last'.result = "ComponentMissing") => World' = World]_vars

\* C16: allocate with a non-empty free list returns the index freed most
\* recently, marks that slot live and returns the generation stored there,
\* which it leaves as it is; with an empty free list it appends a live slot of
\* generation 0 and returns its index, the previous number of slots. No step
\* makes the number of slots smaller.
C16_AllocateReusesLastFreed ==
  [][/\ Len(entities'.entries) >= Len(entities.entries)
     /\ (last'.op = "allocate") =>
          /\ last'.result = "Ok"
          /\ IF entities.free # <<>>
             THEN LET index == Last(entities.free) IN
                  /\ last'.entity = Entity(index, At(entities.entries, index).generation)
                  /\ ~At(entities.entries, index).is_live
                  /\ entities'.entries = [entities.entries EXCEPT ![index + 1].is_live = TRUE]
                  /\ entities'.free = Front(entities.free)
             ELSE /\ last'.entity = Entity(Len(entities.entries), 0)
                  /\ Len(entities'.entries) = Len(entities.entries) + 1
                  /\ SubSeq(entities'.entries, 1, Len(entities.entries)) = entities.entries
                  /\ Last(entities'.entries).is_live
                  /\ Last(entities'.entries).generation = 0
                  /\ entities'.free = <<>>]_vars

\* C16 witness: with indices 0 and 1 freed in that order, allocate has reused
\* index 1 and left index 0 on the free list.
C16_Witness ==
  /\ last.op = "allocate"
  /\ last.result = "Ok"
  /\ last.entity = Entity(1, 1)
  /\ entities.free = <<0>>
  /\ At(entities.entries, 1).is_live

\* C17: deallocate(entity) returns DoesNotExist when entity.index is not less
\* than the number of slots and AlreadyDeallocated when the slot is not live,
\* and changes nothing in both cases; otherwise (unless the increment overflows,
\* which aborts) it marks the slot not live, adds 1 to its generation, appends
\* the index to the free list and changes no other slot.
C17_DeallocateContract ==
  [][(last'.op = "deallocate") =>
       LET e == last'.entity IN
       IF e.index >= Len(entities.entries)
       THEN last'.result = "DoesNotExist" /\ entities' = entities
       ELSE IF ~At(entities.entries, e.index).is_live
       THEN last'.result = "AlreadyDeallocated" /\ entities' = entities
       ELSE \/ /\ At(entities.entries, e.index).generation = MaxGeneration
               /\ last'.result = "panic"
            \/ /\ At(entities.entries, e.index).generation < MaxGeneration
               /\ last'.result = "Ok"
               /\ entities'.entries =
                    [entities.entries EXCEPT
                       ![e.index + 1].is_live = FALSE,
                       ![e.index + 1].generation = At(entities.entries, e.index).generation + 1]
               /\ entities'.free = Append(entities.free, e.index)]_vars

\* C17 witness: each outcome has happened: the latest deallocate freed slot 1
\* while slot 0 stayed live, or was refused for a freed slot, or for an index
\* beyond the table.
C17_Witness ==
  /\ last.op = "deallocate"
  /\ last.result = "Ok"
  /\ last.entity.index = 1
  /\ Len(entities.entries) = 2
  /\ At(entities.entries, 0).is_live
  /\ ~At(entities.entries, 1).is_live
  /\ At(entities.entries, 1).generation = 1
  /\ Last(entities.free) = 1

\* C18: no step makes the generation of a slot smaller; it changes only in a
\* deallocate of that slot that returned Ok, and then by 1; a deallocate of a
\* live slot at the largest generation aborts and leaves the table as it is.
C18_GenerationOnlyGrows ==
  [][/\ \A i \in DOMAIN entities.entries :
          /\ i \in DOMAIN entities'.entries
          /\ entities'.entries[i].generation >= entities.entries[i].generation
          /\ entities'.entries[i].generation # entities.entries[i].generation =>
               /\ last'.op = "deallocate"
               /\ last'.result = "Ok"
               /\ last'.entity.index = i - 1
               /\ entities'.entries[i].generation = entities.entries[i].generation + 1
     /\ (/\ last'.op = "deallocate"
         /\ live_at_index(entities, last'.entity.index)
         /\ At(entities.entries, last'.entity.index).generation = MaxGeneration) =>
          /\ last'.result = "panic"
          /\ panicked'
          /\ entities' = entities]_vars

\* C18 witness: a deallocate of a live slot at the largest generation has
\* aborted.
C18_Witness ==
  /\ panicked
  /\ last.op = "deallocate"
  /\ last.result = "panic"
  /\ At(entities.entries, last.entity.index).is_live
  /\ At(entities.entries, last.entity.index).generation = MaxGeneration

\* C19: entity_count() is the number of live table slots; a spawn makes it
\* larger by 1, a remove that returns makes it smaller by 1, add_component and
\* remove_component leave it as it is, and the first spawn on a new World
\* returns index 0.
C19_EntityCountTracksLiveSlots ==
  [][/\ entity_count(World') = Cardinality({i \in DOMAIN entities'.entries :
                                               entities'.entries[i].is_live})
     /\ (last'.op = "spawn") =>
          /\ last'.result = "Ok"
          /\ entity_count(World') = entity_count(World) + 1
          /\ (World = WorldNew) => last'.entity.index = 0
     /\ (last'.op = "remove" /\ last'.result = "Ok") =>
          entity_count(World') = entity_count(World) - 1
     /\ (last'.op \in {"add_component", "remove_component"}) =>
          entity_count(World') = entity_count(World)]_vars

\* C19 witness: of two spawned entities one has been removed and the count is 1.
C19_Witness ==
  /\ last.op = "remove"
  /\ last.result = "Ok"
  /\ Len(entities.entries) = 2
  /\ entity_count(World) = 1

\* C20: in every reachable World, for every handle and type for which
\* add_component or remove_component would migrate the entity, the archetype
\* index the new type list resolves to differs from the index of the entity's
\* current archetype (index_twice is never given first = second).
C20_MigrationTargetDiffers ==
  \A h \in issued : \A t \in TypeIds : \A impl \in BinarySearchImpls :
    live_at_index(entities, h.index) =>
      LET old_idx == LocationOf(World, h.index).archetype_id
          current_type_ids == At(archetypes, old_idx).order
          found == binary_search(impl, current_type_ids, t)
      IN /\ ~found.ok =>
              resolve_archetype_idx(World, InsertAt(current_type_ids, found.idx, t)) # old_idx
         /\ found.ok =>
              resolve_archetype_idx(World, RemoveAt(current_type_ids, found.idx)) # old_idx

\* C23: the archetype collection is append-only: no step makes it shorter, an
\* archetype index keeps its columns, a bundle-cache entry keeps its value, and
\* every cached value is the index of an archetype of the World.
C23_ArchetypesAppendOnly ==
  [][/\ Len(archetypes') >= Len(archetypes)
     /\ \A a \in DOMAIN archetypes :
          /\ DOMAIN archetypes'[a].components = DOMAIN archetypes[a].components
          /\ archetypes'[a].order = archetypes[a].order
     /\ \A b \in DOMAIN bundle_to_archetype :
          /\ b \in DOMAIN bundle_to_archetype'
          /\ bundle_to_archetype'[b] = bundle_to_archetype[b]
     /\ \A b \in DOMAIN bundle_to_archetype' :
          bundle_to_archetype'[b] < Len(archetypes')]_vars

\* C23 witness: three archetypes have been registered under three bundle ids,
\* the last by a component call.
C23_Witness ==
  /\ Len(archetypes) = 3
  /\ Cardinality(DOMAIN bundle_to_archetype) = 3
  /\ last.op \in {"add_component", "remove_component"}
  /\ last.result = "Ok"

\* C28: set_location(index, location) returns DoesNotExist when index is not
\* less than the number of slots and AlreadyDeallocated when the slot is not
\* live, and changes nothing; otherwise, whatever the generation of the slot, it
\* returns Ok and writes only that slot's location: is_live, generation, the
\* other slots and the free list stay as they are.
C28_SetLocationWritesOnlyLocation ==
  [][(last'.op = "set_location") =>
       LET index == last'.entity.index
           location == EntityLocation(last'.values[1], last'.values[2])
       IN IF index >= Len(entities.entries)
          THEN last'.result = "DoesNotExist" /\ entities' = entities
          ELSE IF ~At(entities.entries, index).is_live
          THEN last'.result = "AlreadyDeallocated" /\ entities' = entities
          ELSE /\ last'.result = "Ok"
               /\ entities'.entries = [entities.entries EXCEPT ![index + 1].location = location]
               /\ entities'.free = entities.free]_vars

\* C28 witness: set_location has moved a reused slot (generation 1) to row 1
\* while the other slot is freed.
C28_Witness ==
  /\ last.op = "set_location"
  /\ last.result = "Ok"
  /\ Len(entities.entries) = 2
  /\ At(entities.entries, last.entity.index).generation = 1
  /\ At(entities.entries, last.entity.index).location = EntityLocation(0, 1)
  /\ entities.free # <<>>

\* C29: set_entity_component returns ComponentMissing for a type the archetype
\* has no column of and UnderCapacity for a row beyond the column, changing
\* nothing; and in every reachable World the overwrite path of add_component on
\* a live entity does not meet UnderCapacity.
C29_TypedWriteErrors ==
  /\ \A a \in DOMAIN archetypes : \A t \in TypeIds : \A v \in Values :
     \A row \in 0..MaxRows :
       LET s == set_entity_component(archetypes[a], row, t, v) IN
       /\ t \notin DOMAIN archetypes[a].components =>
            s.result = "ComponentMissing" /\ s.archetype = archetypes[a]
       /\ (/\ t \in DOMAIN archetypes[a].components
           /\ row >= Len(archetypes[a].components[t])) =>
            s.result = "UnderCapacity" /\ s.archetype = archetypes[a]
  /\ \A h \in issued : \A t \in TypeIds : \A v \in Values : \A impl \in BinarySearchImpls :
       (/\ is_live(entities, h)
        /\ binary_search(impl, ArchetypeOf(World, h.index).order, t).ok) =>
         set_entity_component(ArchetypeOf(World, h.index),
                              LocationOf(World, h.index).index_in_archetype, t, v).result
           # "UnderCapacity"

\* C30: remove(e) with a stale handle, whose index is occupied by a live entity
\* of another generation, leaves the occupant's slot and entity_count as they
\* are.
C30_StaleRemoveSparesOccupant ==
  [][(/\ last'.op = "remove"
      /\ live_at_index(entities, last'.entity.index)
      /\ ~is_live(entities, last'.entity)) =>
       /\ At(entities'.entries, last'.entity.index) = At(entities.entries, last'.entity.index)
       /\ entity_count(World') = entity_count(World)]_vars

\* the column lock a fetch or query call addressed, when that column exists
FetchedColumn ==
  <<IF last'.values = <<>> THEN 0 ELSE last'.values[1], last'.types[1]>>

\* C21: a write fetch of a column is refused at once (the call aborts) when any
\* guard of that column is held, a read fetch when a write guard of it is held;
\* otherwise the fetch is granted, so read guards of one column coexist and
\* guards of other columns never matter; a refused fetch leaves every lock as
\* it was, a granted one changes the lock of its column only.
C21_ColumnBorrowRule ==
  [][(/\ last'.op \in {"fetch_read", "fetch_write", "query_read", "query_write"}
      /\ FetchedColumn[1] < Len(archetypes)
      /\ FetchedColumn[2] \in DOMAIN At(archetypes, FetchedColumn[1]).components) =>
       LET c == FetchedColumn
           write == last'.op \in {"fetch_write", "query_write"}
           conflict == borrows[c].writer \/ (write /\ borrows[c].readers > 0)
       IN IF conflict
          THEN last'.result = "panic" /\ borrows' = borrows /\ pc' = "idle"
          ELSE /\ last'.result = "Ok"
               /\ borrows' = IF write THEN [borrows EXCEPT ![c].writer = TRUE]
                             ELSE [borrows EXCEPT ![c].readers = @ + 1]]_vars

\* C21 witness: with two read guards on one column and a write guard on another
\* column of the same archetype, a write fetch of the first column has been
\* refused.
C21_Witness ==
  /\ last.op = "fetch_write"
  /\ last.result = "panic"
  /\ borrows[<<last.values[1], last.types[1]>>].readers = 2
  /\ \E t \in TypeIds \ {last.types[1]} : borrows[<<last.values[1], t>>].writer

\* C22: a query for a component type, made while no guard is held and some
\* archetype has the type, returns Ok holding one guard for every archetype
\* that has a column of the type, wherever it is in the collection, and none
\* for the others.
C22_QueryCoversEveryMatch ==
  [][(/\ last'.op \in {"query_read", "query_write"}
      /\ borrows = NoBorrows
      /\ \E a \in DOMAIN archetypes : last'.types[1] \in DOMAIN archetypes[a].components) =>
       /\ last'.result = "Ok"
       /\ \A a \in DOMAIN archetypes :
            (last'.types[1] \in DOMAIN archetypes[a].components)
              <=> (borrows'[<<a - 1, last'.types[1]>>] # Unlocked)]_vars

\* C25: no call is ever left waiting for a column lock.
C25_NoCallWaitsOnALock == pc # "blocked"

\* A call followed step by step returns what the call taken as one step
\* returns from the same World, and, unless it panicked, leaves the same World.
StepsAgreeWithCall ==
  [][(pc # "idle" /\ pc' = "idle") =>
       LET r == IF frame.op = "add_component"
                THEN add_component(frame.start, frame.entity, frame.type_id, frame.component,
                                   frame.order, frame.impl)
                ELSE remove_component(frame.start, frame.entity, frame.type_id,
                                      frame.order, frame.impl)
       IN /\ last'.result = r.result
          /\ last'.result # "panic" => World' = r.world]_vars

\* the destination row of the call in progress
Destination == EntityLocation(frame.new_archetype_idx, frame.new_idx_in_archetype)

\* C24: in a migrating add_component or remove_component the entity's location
\* is set to the destination row when that row has been added and before any
\* component is migrated, and no later step of the call, its return included,
\* changes it: from then on the table points at the destination row.
C24_LocationSetBeforeMigration ==
  [][/\ (pc = "row_added" /\ pc' = "located") =>
          /\ frame.new_idx_in_archetype
               < Len(At(archetypes, frame.new_archetype_idx).entities)
          /\ At(At(archetypes, frame.new_archetype_idx).entities, frame.new_idx_in_archetype)
               = frame.entity.index
          /\ LocationOf(World', frame.entity.index) = Destination
     /\ (pc \in {"located", "pushed", "row_removed"}) =>
          /\ LocationOf(World, frame.entity.index) = Destination
          /\ LocationOf(World', frame.entity.index) = Destination]_vars

\* the entities of the source archetype of the call in progress, in world w
SourceEntities(w) == At(w.archetypes, frame.old_idx).entities

\* C26: Archetype::remove_entity(row), as the World calls it: the entities
\* sequence is not empty and row is within it; if row is the last row it is
\* removed, None is returned and the call returns; otherwise the id of the last
\* row is returned and now stands at position row, the sequence is shorter by
\* one and its other positions are as before.
C26_RemoveEntitySwapsLastIn ==
  [][(\/ pc = "pushed"
      \/ pc = "located" /\ frame.ids = <<>> /\ frame.op = "remove_component") =>
       LET before == SourceEntities(World)
           after == SourceEntities(World')
           row == frame.location.index_in_archetype
       IN /\ Len(before) > 0
          /\ row < Len(before)
          /\ ~panicked'
          /\ Len(after) = Len(before) - 1
          /\ \A k \in 0..(Len(after) - 1) : k # row => At(after, k) = At(before, k)
          /\ IF row = Len(before) - 1
             THEN pc' = "idle" /\ last'.result = "Ok"
             ELSE /\ pc' = "row_removed"
                  /\ frame'.moved = Last(before)
                  /\ At(after, row) = Last(before)]_vars

\* C26 witness: entity 0 has left row 0 of an archetype that held rows 0 and 1;
\* entity 1 is reported as displaced and stands in row 0.
C26_Witness ==
  /\ pc = "row_removed"
  /\ At(frame.start.archetypes, frame.old_idx).entities = <<0, 1>>
  /\ frame.location.index_in_archetype = 0
  /\ SourceEntities(World) = <<1>>
  /\ frame.moved = 1

\* C27: migrate_component(type, row, other), for a row within the column: the
\* column of the type in this archetype loses the value at row by swap-remove
\* (its last value takes position row, it is shorter by one), that value is
\* appended to the column of the type in other, and every other column and
\* both entities sequences are as before.
C27_MigrateComponentMovesOneValue ==
  [][(/\ pc = "located"
      /\ frame.ids # <<>>
      /\ Head(frame.ids) \in DOMAIN At(archetypes, frame.new_archetype_idx).components
      /\ frame.location.index_in_archetype
           < Len(At(archetypes, frame.old_idx).components[Head(frame.ids)])) =>
       LET t == Head(frame.ids)
           row == frame.location.index_in_archetype
           src == frame.old_idx + 1
           dst == frame.new_archetype_idx + 1
           column == archetypes[src].components[t]
           shorter == archetypes'[src].components[t]
       IN /\ ~panicked'
          /\ Len(shorter) = Len(column) - 1
          /\ \A k \in 0..(Len(shorter) - 1) :
               At(shorter, k) = IF k = row THEN Last(column) ELSE At(column, k)
          /\ archetypes'[dst].components[t]
               = Append(archetypes[dst].components[t], At(column, row))
          /\ Len(archetypes') = Len(archetypes)
          /\ \A a \in DOMAIN archetypes :
               /\ archetypes'[a].entities = archetypes[a].entities
               /\ DOMAIN archetypes'[a].components = DOMAIN archetypes[a].components
               /\ \A u \in DOMAIN archetypes[a].components :
                    (u # t \/ a \notin {src, dst}) =>
                      archetypes'[a].components[u] = archetypes[a].components[u]
          /\ entities' = entities]_vars

\* C27 witness: the value 1 at row 0 of a column <<1, 2>> has been migrated:
\* the source column is <<2>> and the destination column ends with 1.
C27_Witness ==
  /\ pc = "located"
  /\ frame.location.index_in_archetype = 0
  /\ \E t \in DOMAIN At(frame.start.archetypes, frame.old_idx).components :
       /\ At(frame.start.archetypes, frame.old_idx).components[t] = <<1, 2>>
       /\ t \notin Range(frame.ids)
       /\ At(archetypes, frame.old_idx).components[t] = <<2>>
       /\ t \in DOMAIN At(archetypes, frame.new_archetype_idx).components
       /\ At(archetypes, frame.new_archetype_idx).components[t] # <<>>
       /\ Last(At(archetypes, frame.new_archetype_idx).components[t]) = 1

\* C31: when add_component or remove_component, called with a live handle,
\* returns an Err of any kind, the entity table, every archetype's entities
\* and columns and the bundle cache are what they were before the call; so
\* the location update of the displaced entity, which comes after the rows
\* and values have been moved, never returns an error.
C31_ErrLeavesWorldUnchanged ==
  [][(/\ last'.op \in {"add_component", "remove_component"}
      /\ is_live(entities, last'.entity)
      /\ last'.result \notin {"Ok", "panic"})
     => World' = World]_vars

\* the type ids of the columns of an archetype, in ascending order
SortedColumns(archetype) ==
  SortTypes(CHOOSE o \in IterationOrders(DOMAIN archetype.components) : TRUE)

\* C32: in every reachable World state, every cache entry bundle_id ->
\* archetype_id points at an existing archetype whose column type ids,
\* sorted and hashed, give bundle_id.
C32_CacheMatchesColumns ==
  \A bundle_id \in DOMAIN bundle_to_archetype :
    /\ bundle_to_archetype[bundle_id] < Len(archetypes)
    /\ calculate_bundle_id(
         SortedColumns(At(archetypes, bundle_to_archetype[bundle_id]))) = bundle_id

\* the free list holds exactly the indices of the slots that are not live,
\* each of them once
FreeListExact(es) ==
  /\ \A i, j \in DOMAIN es.free : es.free[i] = es.free[j] => i = j
  /\ Range(es.free) = {i \in 0..(Len(es.entries) - 1) : ~At(es.entries, i).is_live}

\* C33: after any sequence of allocate and deallocate calls the free list
\* holds exactly the indices of the slots that are not live, each once; so
\* allocate never returns AlreadyAllocated, never returns an index that was
\* live when it was called, and no two live handles have the same index.
C33_FreeListInvariant ==
  [][/\ FreeListExact(entities')
     /\ (last'.op = "allocate") =>
          /\ last'.result = "Ok"
          /\ ~live_at_index(entities, last'.entity.index)
     /\ \A e, f \in TableHandles :
          (is_live(entities', e) /\ is_live(entities', f) /\ e.index = f.index) => e = f]_vars

\* C33 witness: both slots were live, slot 0 has been freed and is the one
\* index on the free list, and then slot 1 was freed and allocated again.
C33_Witness ==
  /\ last.op = "allocate"
  /\ last.result = "Ok"
  /\ last.entity.index = 1
  /\ last.entity.generation > 0
  /\ entities.free = <<0>>
  /\ ~At(entities.entries, 0).is_live
  /\ At(entities.entries, 1).is_live

====
